---- MODULE Spec2Model ----
(***************************************************************************)
(* The Todo model (todo/models.py) and its views (todo/views.py) as a      *)
(* state machine over the table of Todo rows.  A request is one action;    *)
(* the specification SpecConc splits todo_update and todo_complete into    *)
(* their read (get_object_or_404) and write (save) database statements.    *)
(***************************************************************************)
EXTENDS Integers, Sequences, FiniteSets, TLC

\* store: the Todo table, primary key -> row;  nextId: the AutoField sequence;
\* now: the clock;  nops: the writes made so far;  last: the request being
\* served and its response;  prev: the table when that request arrived;
\* out: the context the response renders;  deleted: the owner of every row
\* todo_delete has removed;  inflight: the requests of SpecConc between
\* their read and their write.
VARIABLES store, nextId, now, nops, last, prev, out, deleted, inflight

vars == <<store, nextId, now, nops, last, prev, out, deleted, inflight>>

\* ------------------------------------------------------------------ bounds
MaxId == 2
MaxTime == 1
MaxOps == 3

\* ------------------------------------------------------------- vocabulary
Users == {"u1", "u2"}
Procs == {"p1", "p2"}

\* Python None for the nullable DateTimeFields: the empty tuple; a set
\* timestamp t is <<t>>.
None == <<>>
Some(t) == <<t>>

STATUS_CHOICES == {"pending", "in_progress", "completed"}
PRIORITY_CHOICES == {"low", "medium", "high"}

\* A QueryDict (request.POST, request.GET): a function from the keys that
\* are present to their string values.
EmptyDict == [k \in {} |-> ""]

\* QueryDict.get(k, default)
GetOr(dict, k, default) == IF k \in DOMAIN dict THEN dict[k] ELSE default

\* `if request.POST.get(k)`: None (absent) and "" are falsy
Truthy(dict, k) == k \in DOMAIN dict /\ dict[k] # ""

\* The date strings a form may submit.  DateTimeField.to_python parses
\* "d0", "d1"; any other non-empty string raises ValidationError.
DateStrings == {"d0", "d1"}
ParseDate(s) == IF s = "d0" THEN 0 ELSE 1

\* due_date=due_date if due_date else None, then the field's to_python
DueDateOf(dict) == IF Truthy(dict, "due_date") THEN Some(ParseDate(dict["due_date"])) ELSE None
DueDateBad(dict) == Truthy(dict, "due_date") /\ dict["due_date"] \notin DateStrings

\* -------------------------------------------------------- request inputs
CreatePosts ==
  { [description |-> "x", priority |-> "low"],
    [title |-> "", due_date |-> "d0"],
    [title |-> "a"],
    [title |-> "b", priority |-> "high", due_date |-> "d0"],
    [title |-> "b", due_date |-> "bad"] }

UpdatePosts ==
  { [title |-> "c"],
    [status |-> "completed"],
    [status |-> "archived", due_date |-> "d1"],
    [title |-> "a", description |-> "y", status |-> "in_progress",
     priority |-> "high", due_date |-> ""],
    [due_date |-> "bad"] }

ListQueries ==
  { EmptyDict,
    [status |-> "completed"],
    [status |-> "", priority |-> "high"],
    [status |-> "pending", priority |-> "high"],
    [status |-> "archived"] }

\* The primary keys a URL may name
Pks == 1..MaxId

\* ----------------------------------------------------------------- model
\* Todo.objects.create(...): the field defaults of the model; auto_now_add
\* and auto_now are stamped by the pre_save of the one INSERT at clock t.
NewTodo(u, post, t) ==
  [ title |-> post["title"],
    description |-> GetOr(post, "description", ""),
    status |-> "pending",
    priority |-> GetOr(post, "priority", "medium"),
    due_date |-> DueDateOf(post),
    created_at |-> t,
    updated_at |-> t,
    completed_at |-> None,
    owner |-> u ]

\* Model.save(): every column is written, updated_at is auto_now
Save(todo, t) == [todo EXCEPT !.updated_at = t]

\* A faulty mark_as_completed that keeps the first completion stamp
mark_as_completed_once(todo, t1, t2) ==
  Save([todo EXCEPT !.status = "completed",
                    !.completed_at = IF todo.completed_at = None THEN Some(t1)
                                     ELSE todo.completed_at], t2)

\* Todo.mark_as_completed: timezone.now() is read at t1, save() reads it at t2
mark_as_completed(todo, t1, t2) ==
  Save([todo EXCEPT !.status = "completed", !.completed_at = Some(t1)], t2)

\* A faulty is_overdue that forgets the status
is_overdue_any_status(todo, t) ==
  IF todo.due_date # None THEN t > todo.due_date[1] ELSE FALSE

\* Todo.is_overdue at clock t: a datetime is always truthy, None is not
is_overdue(todo, t) ==
  IF todo.due_date # None /\ todo.status # "completed"
  THEN t > todo.due_date[1]
  ELSE FALSE

\* ----------------------------------------------------------------- views
\* A faulty lookup by primary key alone
FoundAnyOwner(s, pk, u) == pk \in DOMAIN s

\* get_object_or_404(Todo, pk=pk, owner=request.user) finds a row
Found(s, pk, u) == pk \in DOMAIN s /\ s[pk].owner = u

\* A faulty title check, `if title is not None:`
TitleGivenPresent(post) == "title" \in DOMAIN post

\* todo_create: `if title:`
TitleGiven(post) == Truthy(post, "title")

\* A faulty todo_update whose title has no default
UpdateFieldsBlankTitle(todo, post) ==
  [todo EXCEPT
     !.title = GetOr(post, "title", ""),
     !.description = GetOr(post, "description", todo.description),
     !.status = GetOr(post, "status", todo.status),
     !.priority = GetOr(post, "priority", todo.priority),
     !.due_date = DueDateOf(post)]

\* A faulty todo_update that clears the completion stamp of a row whose
\* status is not completed
UpdateFieldsClearStamp(todo, post) ==
  [todo EXCEPT
     !.title = GetOr(post, "title", todo.title),
     !.description = GetOr(post, "description", todo.description),
     !.status = GetOr(post, "status", todo.status),
     !.priority = GetOr(post, "priority", todo.priority),
     !.due_date = DueDateOf(post),
     !.completed_at = IF GetOr(post, "status", todo.status) = "completed"
                      THEN todo.completed_at ELSE None]

\* todo_update, the assignments of the POST branch
UpdateFields(todo, post) ==
  [todo EXCEPT
     !.title = GetOr(post, "title", todo.title),
     !.description = GetOr(post, "description", todo.description),
     !.status = GetOr(post, "status", todo.status),
     !.priority = GetOr(post, "priority", todo.priority),
     !.due_date = DueDateOf(post)]

\* A faulty todo_list that forgets the owner
ListIdsAnyOwner(s, u, q) ==
  { i \in DOMAIN s :
      /\ (Truthy(q, "status") => s[i].status = q["status"])
      /\ (Truthy(q, "priority") => s[i].priority = q["priority"]) }

\* todo_list: the ids of the queryset
ListIds(s, u, q) ==
  { i \in DOMAIN s :
      /\ s[i].owner = u
      /\ (Truthy(q, "status") => s[i].status = q["status"])
      /\ (Truthy(q, "priority") => s[i].priority = q["priority"]) }

\* Meta.ordering = ['-created_at']
OrderedDesc(s, seq) ==
  \A i, j \in 1..Len(seq) : i < j => s[seq[i]].created_at >= s[seq[j]].created_at

\* The sequences the database may return for the queryset: every
\* arrangement of the rows that ORDER BY created_at DESC allows.
ListResults(s, u, q) ==
  LET ids == ListIds(s, u, q)
      n == Cardinality(ids)
  IN { seq \in [1..n -> ids] :
         /\ \A i, j \in 1..n : i # j => seq[i] # seq[j]
         /\ OrderedDesc(s, seq) }

\* todo_stats
StatsOf(s, u, t) ==
  LET todos == { i \in DOMAIN s : s[i].owner = u }
  IN [ total |-> Cardinality(todos),
       pending |-> Cardinality({ i \in todos : s[i].status = "pending" }),
       in_progress |-> Cardinality({ i \in todos : s[i].status = "in_progress" }),
       completed |-> Cardinality({ i \in todos : s[i].status = "completed" }),
       overdue |-> Cardinality({ i \in todos : is_overdue(s[i], t) }),
       high_priority |-> Cardinality({ i \in todos : s[i].priority = "high" }) ]

\* A faulty delete that removes every row of the row's owner
delete_all_of_owner(s, pk) ==
  [i \in { j \in DOMAIN s : s[j].owner # s[pk].owner } |-> s[i]]

\* todo.delete(): the row leaves the table
delete(s, pk) == [i \in DOMAIN s \ {pk} |-> s[i]]

\* The AutoField primary key: the database sequence never hands out an id twice
AllocId(s, n) == n

\* The request just served
Req(op, u, pk, method, dict, resp) ==
  [ op |-> op, user |-> u, pk |-> pk, method |-> method, dict |-> dict,
    resp |-> resp, t0 |-> now ]

\* No request is being served
NoReq ==
  [ op |-> "none", user |-> "", pk |-> 0, method |-> "", dict |-> EmptyDict,
    resp |-> "", t0 |-> 0 ]

Idle == [ pc |-> "idle" ]

Init ==
  /\ store = [i \in {} |-> 0]
  /\ nextId = 1
  /\ now = 0
  /\ nops = 0
  /\ last = NoReq
  /\ prev = store
  /\ out = None
  /\ deleted = [i \in {} |-> ""]
  /\ inflight = [p \in Procs |-> Idle]

\* The clock advances between and inside requests
Tick ==
  /\ last = NoReq
  /\ now < MaxTime
  /\ now' = now + 1
  /\ UNCHANGED <<store, nextId, nops, last, prev, out, deleted, inflight>>

\* The response is sent; the request, its objects and its context are dropped
Respond ==
  /\ last # NoReq
  /\ last' = NoReq
  /\ prev' = store
  /\ out' = None
  /\ UNCHANGED <<store, nextId, now, nops, deleted, inflight>>

\* The clock reads of one request: now, or one tick later
Later == { t \in {now, now + 1} : t <= MaxTime }

\* todo_create
Create(u, method, post) ==
  /\ last = NoReq
  /\ UNCHANGED deleted
  /\ prev' = store
  /\ out' = None
  /\ UNCHANGED inflight
  /\ IF method = "POST" /\ TitleGiven(post)
     THEN IF DueDateBad(post)
          THEN \* to_python raises ValidationError inside create(): no row
               /\ last' = Req("create", u, 0, method, post, "error")
               /\ UNCHANGED <<store, nextId, now, nops>>
          ELSE /\ nextId <= MaxId
               /\ nops < MaxOps
               /\ LET id == AllocId(store, nextId) IN
                    store' = [i \in DOMAIN store \cup {id} |->
                                IF i = id THEN NewTodo(u, post, now) ELSE store[i]]
               /\ nextId' = nextId + 1
               /\ UNCHANGED now
               /\ nops' = nops + 1
               /\ last' = Req("create", u, AllocId(store, nextId), method, post, "redirect")
     ELSE \* GET, or 'Title is required!': the form is rendered again
          /\ last' = Req("create", u, 0, method, post,
                         IF method = "POST" THEN "invalid" ELSE "form")
          /\ UNCHANGED <<store, nextId, now, nops>>

\* todo_detail
Detail(u, pk) ==
  /\ last = NoReq
  /\ UNCHANGED deleted
  /\ prev' = store
  /\ UNCHANGED <<store, nextId, now, nops, inflight>>
  /\ IF Found(store, pk, u)
     THEN /\ last' = Req("get", u, pk, "GET", EmptyDict, "ok")
          /\ out' = store[pk]
     ELSE /\ last' = Req("get", u, pk, "GET", EmptyDict, "NotFound")
          /\ out' = None

\* todo_update
Update(u, pk, method, post) ==
  /\ last = NoReq
  /\ UNCHANGED deleted
  /\ prev' = store
  /\ out' = None
  /\ UNCHANGED <<nextId, inflight>>
  /\ IF ~Found(store, pk, u)
     THEN /\ last' = Req("update", u, pk, method, post, "NotFound")
          /\ UNCHANGED <<store, now, nops>>
     ELSE IF method # "POST"
     THEN /\ last' = Req("update", u, pk, method, post, "form")
          /\ UNCHANGED <<store, now, nops>>
     ELSE IF DueDateBad(post)
     THEN \* save() raises ValidationError: nothing is written
          /\ last' = Req("update", u, pk, method, post, "error")
          /\ UNCHANGED <<store, now, nops>>
     ELSE /\ nops < MaxOps
          /\ store' = [store EXCEPT ![pk] = Save(UpdateFields(store[pk], post), now)]
          /\ nops' = nops + 1
          /\ last' = Req("update", u, pk, method, post, "redirect")
          /\ UNCHANGED now

\* todo_delete
Delete(u, pk, method) ==
  /\ last = NoReq
  /\ prev' = store
  /\ out' = None
  /\ UNCHANGED <<nextId, now, inflight>>
  /\ IF ~Found(store, pk, u)
     THEN /\ last' = Req("delete", u, pk, method, EmptyDict, "NotFound")
          /\ UNCHANGED <<store, nops, deleted>>
     ELSE IF method # "POST"
     THEN /\ last' = Req("delete", u, pk, method, EmptyDict, "form")
          /\ UNCHANGED <<store, nops, deleted>>
     ELSE /\ nops < MaxOps
          /\ store' = delete(store, pk)
          /\ deleted' = [i \in DOMAIN deleted \cup {pk} |->
                           IF i = pk THEN store[pk].owner ELSE deleted[i]]
          /\ nops' = nops + 1
          /\ last' = Req("delete", u, pk, method, EmptyDict, "redirect")

\* todo_complete (any request method)
Complete(u, pk) ==
  /\ last = NoReq
  /\ UNCHANGED deleted
  /\ prev' = store
  /\ out' = None
  /\ UNCHANGED <<nextId, inflight>>
  /\ IF ~Found(store, pk, u)
     THEN /\ last' = Req("complete", u, pk, "GET", EmptyDict, "NotFound")
          /\ UNCHANGED <<store, now, nops>>
     ELSE /\ nops < MaxOps
          /\ \E t2 \in Later :
               /\ store' = [store EXCEPT ![pk] = mark_as_completed(store[pk], now, t2)]
               /\ now' = t2
          /\ nops' = nops + 1
          /\ last' = Req("complete", u, pk, "GET", EmptyDict, "redirect")

\* todo_list
List(u, q) ==
  /\ last = NoReq
  /\ UNCHANGED deleted
  /\ prev' = store
  /\ UNCHANGED <<store, nextId, now, nops, inflight>>
  /\ last' = Req("list", u, 0, "GET", q, "ok")
  /\ out' \in ListResults(store, u, q)

\* todo_stats
Stats(u) ==
  /\ last = NoReq
  /\ UNCHANGED deleted
  /\ prev' = store
  /\ UNCHANGED <<store, nextId, now, nops, inflight>>
  /\ last' = Req("stats", u, 0, "GET", EmptyDict, "ok")
  /\ out' = StatsOf(store, u, now)

Methods == {"GET", "POST"}

\* A GET carries no form data
CreateRequests == {<<"GET", EmptyDict>>} \cup {<<"POST", p>> : p \in CreatePosts}
UpdateRequests == {<<"GET", EmptyDict>>} \cup {<<"POST", p>> : p \in UpdatePosts}

Next ==
  \/ Tick
  \/ Respond
  \/ \E u \in Users, r \in CreateRequests : Create(u, r[1], r[2])
  \/ \E u \in Users, pk \in Pks : Detail(u, pk)
  \/ \E u \in Users, pk \in Pks, r \in UpdateRequests : Update(u, pk, r[1], r[2])
  \/ \E u \in Users, pk \in Pks, m \in Methods : Delete(u, pk, m)
  \/ \E u \in Users, pk \in Pks : Complete(u, pk)
  \/ \E u \in Users, q \in ListQueries : List(u, q)
  \/ \E u \in Users : Stats(u)

Spec == Init /\ [][Next]_vars

\* ------------------------------------------------------------ properties
\* The request being served is one of the four that address a row by id
ByIdOp == last.op \in {"get", "update", "delete", "complete"}

\* The request being served wrote to the table
Wrote == last.resp = "redirect"

\* C1: get, update, delete and complete by a user who does not own the row
\* answer NotFound, as they do for an id that names no row, and leave the
\* table exactly as it was.
C1_NonOwnerNotFound ==
  (ByIdOp /\ (last.pk \notin DOMAIN prev \/ prev[last.pk].owner # last.user))
    => (last.resp = "NotFound" /\ store = prev /\ out = None)

C1_Witness ==
  /\ last.op = "update"
  /\ last.method = "POST"
  /\ last.dict = [title |-> "c"]
  /\ last.pk \in DOMAIN prev
  /\ prev[last.pk].owner # last.user
  /\ prev[last.pk].title # "c"
  /\ last.resp = "NotFound"

\* C2: the counts todo_stats renders satisfy
\* pending + in_progress + completed = total, every count >= 0.
C2_StatsPartition ==
  last.op = "stats" =>
    /\ out.pending + out.in_progress + out.completed = out.total
    /\ \A k \in DOMAIN out : out[k] >= 0

\* The four fields todo_update reads with the row's value as the default
DefaultedFields == {"title", "description", "status", "priority"}

\* C3 as stated: a successful update leaves each of title, description,
\* status, priority and due_date that the request does not specify as it was.
C3_Original ==
  (last.op = "update" /\ Wrote) =>
    \A f \in DefaultedFields \cup {"due_date"} :
      f \notin DOMAIN last.dict => store[last.pk][f] = prev[last.pk][f]

\* C3 as amended: a successful update leaves each of title, description,
\* status and priority that the request does not specify as it was; due_date
\* is always written, and is null when the request gives none or an empty one.
C3_PartialUpdate ==
  (last.op = "update" /\ Wrote) =>
    /\ \A f \in DefaultedFields :
         f \notin DOMAIN last.dict => store[last.pk][f] = prev[last.pk][f]
    /\ \A f \in DefaultedFields :
         f \in DOMAIN last.dict => store[last.pk][f] = last.dict[f]
    /\ ("due_date" \notin DOMAIN last.dict \/ last.dict["due_date"] = "")
         => store[last.pk].due_date = None

C3_Witness ==
  /\ last.op = "update"
  /\ Wrote
  /\ DOMAIN last.dict = {"status"}
  /\ prev[last.pk].title = "b"
  /\ prev[last.pk].due_date # None
  /\ store[last.pk].title = "b"
  /\ store[last.pk].due_date = None

\* C4: a create whose title is empty or absent fails and leaves the table
\* as it was, whatever the table and the other fields are.
C4_CreateWithoutTitle ==
  (last.op = "create" /\ last.method = "POST"
     /\ ("title" \notin DOMAIN last.dict \/ last.dict["title"] = ""))
    => (last.resp = "invalid" /\ store = prev)

C4_Witness ==
  /\ last.op = "create"
  /\ last.dict = [title |-> "", due_date |-> "d0"]
  /\ DOMAIN prev # {}
  /\ store = prev
  /\ last.resp = "invalid"

\* The clock values is_overdue may be asked at
Times == 0..(MaxTime + 1)

\* C5: is_overdue is true exactly when due_date is set, the clock is strictly
\* after it and the status is not completed; it is false for the row a
\* complete has just written, and for every row without a due_date.
C5_IsOverdue ==
  /\ \A i \in DOMAIN store : \A t \in Times :
       is_overdue(store[i], t) <=>
         \E d \in Times : /\ store[i].due_date = <<d>>
                          /\ t > d
                          /\ store[i].status # "completed"
  /\ (last.op = "complete" /\ Wrote) =>
       \A t \in Times : ~is_overdue(store[last.pk], t)
  /\ last.op = "stats" =>
       out.overdue = Cardinality({ i \in DOMAIN store :
                        /\ store[i].owner = last.user
                        /\ store[i].due_date # <<>>
                        /\ now > store[i].due_date[1]
                        /\ store[i].status # "completed" })

C5_Witness ==
  /\ last.op = "complete"
  /\ Wrote
  /\ is_overdue(prev[last.pk], now)
  /\ store[last.pk].due_date # None
  /\ ~is_overdue(store[last.pk], now)

\* A filter of the list request: a key of the query string with a non-empty
\* value (the form's empty choice stands for no filter)
HasFilter(q, k) == k \in DOMAIN q /\ q[k] # ""

\* C6: the list holds exactly the requesting user's rows that match every
\* filter given, each once, newest created_at first; it is the empty sequence
\* when no row matches.
C6_ListExact ==
  last.op = "list" =>
    /\ { out[n] : n \in 1..Len(out) } =
         { i \in DOMAIN store :
             /\ store[i].owner = last.user
             /\ (HasFilter(last.dict, "status") => store[i].status = last.dict["status"])
             /\ (HasFilter(last.dict, "priority") => store[i].priority = last.dict["priority"]) }
    /\ \A m, n \in 1..Len(out) : m < n =>
         /\ out[m] # out[n]
         /\ store[out[m]].created_at >= store[out[n]].created_at

C6_Witness ==
  /\ last.op = "list"
  /\ HasFilter(last.dict, "status")
  /\ HasFilter(last.dict, "priority")
  /\ Len(out) = 2
  /\ store[out[1]].created_at > store[out[2]].created_at

\* C7: a delete removes its row and no other; a removed id never names a row
\* again, and a get of it by the former owner answers NotFound.
C7_DeletePermanent ==
  /\ (last.op = "delete" /\ Wrote) =>
       /\ last.pk \notin DOMAIN store
       /\ DOMAIN store = DOMAIN prev \ {last.pk}
       /\ \A i \in DOMAIN store : store[i] = prev[i]
  /\ \A i \in DOMAIN deleted : i \notin DOMAIN store
  /\ (last.op = "get" /\ last.pk \in DOMAIN deleted /\ last.user = deleted[last.pk])
       => last.resp = "NotFound"

C7_Witness ==
  /\ last.op = "get"
  /\ last.pk \in DOMAIN deleted
  /\ last.user = deleted[last.pk]
  /\ last.resp = "NotFound"
  /\ \E i \in DOMAIN store : i > last.pk

\* C8: a complete by the owner leaves status completed and completed_at set,
\* whatever the status was; completed_at and updated_at are both stamped with
\* clock reads of that call, also when the row was completed already.
C8_CompleteStamps ==
  (last.op = "complete" /\ Wrote) =>
    /\ store[last.pk].status = "completed"
    /\ store[last.pk].completed_at # None
    /\ last.t0 <= store[last.pk].completed_at[1]
    /\ store[last.pk].completed_at[1] <= store[last.pk].updated_at
    /\ store[last.pk].updated_at <= now

C8_Witness ==
  /\ last.op = "complete"
  /\ Wrote
  /\ prev[last.pk].status = "completed"
  /\ prev[last.pk].completed_at # None
  /\ store[last.pk].completed_at # prev[last.pk].completed_at
  /\ store[last.pk].updated_at # prev[last.pk].updated_at

\* C9: no request but complete changes the completed_at of a row; an update
\* that sets status to completed, or moves it away from completed, leaves
\* completed_at as it was.
C9_UpdateKeepsCompletedAt ==
  /\ last.op = "update" =>
       /\ DOMAIN store = DOMAIN prev
       /\ \A i \in DOMAIN store : store[i].completed_at = prev[i].completed_at
  /\ last.op # "complete" =>
       \A i \in DOMAIN store \cap DOMAIN prev :
         store[i].completed_at = prev[i].completed_at

C9_Witness ==
  /\ last.op = "update"
  /\ Wrote
  /\ last.dict = [status |-> "completed"]
  /\ prev[last.pk].status = "pending"
  /\ store[last.pk].status = "completed"
  /\ store[last.pk].completed_at = None

\* ------------------------------------------------- concurrent requests
\* Two worker processes each serve one todo_update or todo_complete.  The
\* views open no transaction and take no row lock: get_object_or_404 is one
\* SELECT, save() is one UPDATE of every column from the in-memory object,
\* and other requests' statements may run between the two.
ConcRequests ==
  {<<"update", p>> : p \in {q \in UpdatePosts : ~DueDateBad(q)}}
    \cup {<<"complete", EmptyDict>>}

AllIdle == \A p \in Procs : inflight[p] = Idle

\* Rows are created before the concurrent requests arrive
Setup ==
  /\ AllIdle
  /\ \/ \E u \in Users, r \in CreateRequests : Create(u, r[1], r[2])
     \/ Respond

\* get_object_or_404 of todo_update / todo_complete: the SELECT
Load(p, op, u, pk, dict) ==
  /\ last = NoReq
  /\ inflight[p] = Idle
  /\ prev' = IF AllIdle THEN store ELSE prev
  /\ inflight' = [inflight EXCEPT ![p] =
       IF Found(store, pk, u)
       THEN [ pc |-> "loaded", op |-> op, user |-> u, pk |-> pk, dict |-> dict,
              todo |-> store[pk], resp |-> "" ]
       ELSE [ pc |-> "done", op |-> op, user |-> u, pk |-> pk, dict |-> dict,
              todo |-> None, resp |-> "NotFound" ]]
  /\ UNCHANGED <<store, nextId, now, nops, last, out, deleted>>

\* todo.save() of todo_update: the UPDATE of the row from the loaded object
WriteUpdate(p) ==
  /\ inflight[p].pc = "loaded"
  /\ inflight[p].op = "update"
  /\ store' = [store EXCEPT ![inflight[p].pk] =
                 Save(UpdateFields(inflight[p].todo, inflight[p].dict), now)]
  /\ inflight' = [inflight EXCEPT ![p].pc = "done", ![p].resp = "redirect"]
  /\ UNCHANGED <<nextId, now, nops, last, prev, out, deleted>>

\* todo.mark_as_completed() of todo_complete on the loaded object
WriteComplete(p) ==
  /\ inflight[p].pc = "loaded"
  /\ inflight[p].op = "complete"
  /\ \E t2 \in Later :
       /\ store' = [store EXCEPT ![inflight[p].pk] =
                      mark_as_completed(inflight[p].todo, now, t2)]
       /\ now' = t2
  /\ inflight' = [inflight EXCEPT ![p].pc = "done", ![p].resp = "redirect"]
  /\ UNCHANGED <<nextId, nops, last, prev, out, deleted>>

NextConc ==
  \/ Setup
  \/ Tick
  \/ \E p \in Procs, u \in Users, pk \in Pks, r \in ConcRequests : Load(p, r[1], u, pk, r[2])
  \/ \E p \in Procs : WriteUpdate(p)
  \/ \E p \in Procs : WriteComplete(p)

SpecConc == Init /\ [][NextConc]_vars

\* What one request makes of a row when it runs alone, timestamps aside
Alone(r, todo) ==
  IF r.op = "update" THEN UpdateFields(todo, r.dict)
  ELSE [todo EXCEPT !.status = "completed", !.completed_at = Some(0)]

\* A row without its timestamps; of completed_at, whether it is set
Fields(todo) ==
  [ title |-> todo.title, description |-> todo.description,
    status |-> todo.status, priority |-> todo.priority,
    due_date |-> todo.due_date, completed |-> todo.completed_at # None,
    owner |-> todo.owner ]

\* Both processes have written the same row
BothWrote ==
  /\ \A p \in Procs : inflight[p].pc = "done" /\ inflight[p].resp = "redirect"
  /\ inflight["p1"].pk = inflight["p2"].pk

\* C10: two requests on the same row whose statements interleave leave the
\* row as running them one after the other, in one order or the other, does.
C10_Serializable ==
  BothWrote =>
    LET base == prev[inflight["p1"].pk]
        r1 == inflight["p1"]
        r2 == inflight["p2"]
    IN Fields(store[r1.pk]) \in { Fields(Alone(r2, Alone(r1, base))),
                                  Fields(Alone(r1, Alone(r2, base))) }

====
